---- MODULE Spec2Model ----
(***************************************************************************)
(* Model of the cocoapods-package-readme-mcp-server core.                  *)
(*                                                                         *)
(* Part 1: MemoryCache (services/cache.ts): a Map of entries in insertion  *)
(* order, a clock (Date.now()), the sweep timer handle, and the record of   *)
(* the last call with what it returned and what it logged.                 *)
(***************************************************************************)
EXTENDS Integers, Sequences, FiniteSets, TLC

(***************************************************************************)
(* Bounds of the model.                                                    *)
(***************************************************************************)
\* the clock runs from 0 to MaxTime
MaxTime == 2

(***************************************************************************)
(* Program constants.                                                      *)
(***************************************************************************)
\* options.ttl || 3600000
DEFAULT_TTL == 3600000
\* options.maxSize || 1000
DEFAULT_MAX_SIZE == 1000

(***************************************************************************)
(* Optional values: undefined is <<>>, a supplied value v is <<v>>.        *)
(***************************************************************************)
None == <<>>
Some(v) == <<v>>

\* JavaScript's `x || d` on an optional number: undefined and 0 are falsy
OrDefault(x, d) == IF x = None THEN d ELSE IF x[1] = 0 THEN d ELSE x[1]

\* the keys, data values and arguments the callers use
Keys == {"", "a"}
Data == {"v1", "v2"}
TtlArgs == {None, Some(0), Some(1)}
\* the options the constructor is called with: none, falsy ones, and a ttl of 2
\* with a bound of 1, of 2 and of -1
CtorOptions ==
  { [ttl |-> None, maxSize |-> None],
    [ttl |-> Some(0), maxSize |-> Some(0)],
    [ttl |-> Some(2), maxSize |-> Some(1)],
    [ttl |-> Some(2), maxSize |-> Some(2)],
    [ttl |-> Some(2), maxSize |-> Some(-1)] }

Null == "null"
Void == "void"

VARIABLES
  cache,            \* the Map, as the sequence of its entries in insertion order
  now,              \* Date.now()
  cleanupInterval,  \* TRUE: the timer handle is set; FALSE: it is null
  defaultTtl,       \* readonly field
  maxSize,          \* readonly field
  options,          \* the options the constructor was called with
  lastOp,           \* the last call: its name, arguments, result and log lines
  readme,           \* the argument of the last ReadmeParser call
  result,           \* what that call returned or threw
  api               \* the API call in progress: where it stands and its outcome

vars ==
  <<cache, now, cleanupInterval, defaultTtl, maxSize, options, lastOp, readme, result, api>>

\* before any ReadmeParser call
NoReadme == [type |-> "undefined", str |-> ""]
NoResult == [op |-> "none", threw |-> FALSE, value |-> ""]

\* no error and no value yet
NoError == [class |-> "none", mcp |-> FALSE, statusCode |-> None]
NoValue == [kind |-> "none", name |-> "", limit |-> 0, pods |-> {}]

\* no API call in progress, after `finished` calls
Idle(finished) ==
  [tool |-> "none", toolPc |-> "none", exists |-> FALSE, absent |-> "none",
   pkg |-> "", toolThrew |-> FALSE,
   op |-> "none", name |-> "", limit |-> 0, maxRetries |-> 0,
   pc |-> "idle", attempt |-> 0, calls |-> 0, waits |-> 0,
   fromCache |-> FALSE, before |-> <<>>,
   threw |-> FALSE, error |-> NoError, value |-> NoValue,
   finished |-> finished]

Call(op, key, data, ttl, ret, log) ==
  [op |-> op, key |-> key, data |-> data, ttl |-> ttl, ret |-> ret, log |-> log]

(***************************************************************************)
(* The Map.                                                                *)
(***************************************************************************)
MapKeys(c) == {c[i].key : i \in 1..Len(c)}
MapHas(c, k) == k \in MapKeys(c)
MapGet(c, k) == c[CHOOSE i \in 1..Len(c) : c[i].key = k]
MapDelete(c, k) == SelectSeq(c, LAMBDA e : e.key # k)
\* variant: a key that is already there keeps its old entry
MapSet_keepsFirst(c, e) == IF MapHas(c, e.key) THEN c ELSE Append(c, e)

\* Map.set keeps the place of a key that is already there, and appends a new one
MapSet(c, e) ==
  IF MapHas(c, e.key)
  THEN [i \in 1..Len(c) |-> IF c[i].key = e.key THEN e ELSE c[i]]
  ELSE Append(c, e)

\* now > entry.timestamp + entry.ttl
Expired(e, t) == t > e.timestamp + e.ttl

(***************************************************************************)
(* cleanExpired: delete every entry whose expiry has passed.               *)
(***************************************************************************)
\* variant: the comparison is >=, so an entry is swept at the very moment ts + ttl
cleanExpired_atDeadline(c, t) == SelectSeq(c, LAMBDA e : t < e.timestamp + e.ttl)

\* variant: the callback deletes nothing
cleanExpired_never(c, t) == c

cleanExpired(c, t) == SelectSeq(c, LAMBDA e : ~Expired(e, t))

(***************************************************************************)
(* evictOldest: the scan starts from oldestTime = Date.now() and           *)
(* oldestKey = null and takes an entry only when it is strictly older;     *)
(* the deletion is guarded by `if (oldestKey)`, falsy for null and "".     *)
(***************************************************************************)
RECURSIVE OldestScan(_, _, _, _)
OldestScan(c, i, oldestKey, oldestTime) ==
  IF i > Len(c) THEN oldestKey
  ELSE IF c[i].timestamp < oldestTime
       THEN OldestScan(c, i + 1, Some(c[i].key), c[i].timestamp)
       ELSE OldestScan(c, i + 1, oldestKey, oldestTime)

oldestKeyOf(c, t) == OldestScan(c, 1, None, t)

Truthy(k) == k # None /\ k # Some("")

evictOldest(c, t) ==
  IF Truthy(oldestKeyOf(c, t)) THEN MapDelete(c, oldestKeyOf(c, t)[1]) ELSE c

(***************************************************************************)
(* The constructor.                                                        *)
(***************************************************************************)
CacheInit ==
  /\ options \in CtorOptions
  /\ defaultTtl = OrDefault(options.ttl, DEFAULT_TTL)
  /\ maxSize = OrDefault(options.maxSize, DEFAULT_MAX_SIZE)
  /\ cache = <<>>
  /\ now = 0
  /\ cleanupInterval = TRUE
  /\ lastOp = Call("new", "", "", None, Void, {})
  /\ readme = NoReadme
  /\ result = NoResult
  /\ api = Idle(0)

(***************************************************************************)
(* set(key, data, ttl?)                                                    *)
(***************************************************************************)
setMap(c, key, data, ttl, t) ==
  LET c1 == IF Len(c) >= maxSize THEN evictOldest(c, t) ELSE c
  IN  MapSet(c1, [key |-> key, data |-> data, timestamp |-> t,
                  ttl |-> OrDefault(ttl, defaultTtl)])

setLog(c, t) ==
  IF Len(c) >= maxSize /\ Truthy(oldestKeyOf(c, t)) THEN {"evicted", "set"} ELSE {"set"}

Set(key, data, ttl) ==
  /\ cache' = setMap(cache, key, data, ttl, now)
  /\ lastOp' = Call("set", key, data, ttl, Void, setLog(cache, now))
  /\ UNCHANGED <<now, cleanupInterval, defaultTtl, maxSize, options, readme, result, api>>

(***************************************************************************)
(* get(key), has(key)                                                      *)
(***************************************************************************)
\* variant: the expired branch returns null without deleting the entry
getMap_keepsExpired(c, key, t) == c

\* variant: a hit refreshes the entry's timestamp (least-recently-used)
getMap_touches(c, key, t) ==
  IF ~MapHas(c, key) THEN c
  ELSE IF Expired(MapGet(c, key), t) THEN MapDelete(c, key)
  ELSE MapSet(c, [MapGet(c, key) EXCEPT !.timestamp = t])

\* variant: a miss leaves an entry behind for the key it looked up
getMap_createsOnMiss(c, key, t) ==
  IF ~MapHas(c, key)
  THEN Append(c, [key |-> key, data |-> Null, timestamp |-> t, ttl |-> DEFAULT_TTL])
  ELSE IF Expired(MapGet(c, key), t) THEN MapDelete(c, key) ELSE c

getMap(c, key, t) ==
  IF ~MapHas(c, key) THEN c
  ELSE IF Expired(MapGet(c, key), t) THEN MapDelete(c, key) ELSE c

getRet(c, key, t) ==
  IF ~MapHas(c, key) THEN Null
  ELSE IF Expired(MapGet(c, key), t) THEN Null ELSE MapGet(c, key).data

getLog(c, key, t) ==
  IF ~MapHas(c, key) THEN {"miss"}
  ELSE IF Expired(MapGet(c, key), t) THEN {"expired"} ELSE {"hit"}

Get(key) ==
  /\ cache' = getMap(cache, key, now)
  /\ lastOp' = Call("get", key, "", None, getRet(cache, key, now), getLog(cache, key, now))
  /\ UNCHANGED <<now, cleanupInterval, defaultTtl, maxSize, options, readme, result, api>>

hasMap(c, key, t) ==
  IF ~MapHas(c, key) THEN c
  ELSE IF Expired(MapGet(c, key), t) THEN MapDelete(c, key) ELSE c

hasRet(c, key, t) ==
  IF ~MapHas(c, key) THEN "false"
  ELSE IF Expired(MapGet(c, key), t) THEN "false" ELSE "true"

Has(key) ==
  /\ cache' = hasMap(cache, key, now)
  /\ lastOp' = Call("has", key, "", None, hasRet(cache, key, now), {})
  /\ UNCHANGED <<now, cleanupInterval, defaultTtl, maxSize, options, readme, result, api>>

(***************************************************************************)
(* delete(key), clear(), destroy()                                         *)
(***************************************************************************)
deleteMap(c, key) == MapDelete(c, key)

Delete(key) ==
  /\ cache' = deleteMap(cache, key)
  /\ lastOp' = Call("delete", key, "", None,
                    IF MapHas(cache, key) THEN "true" ELSE "false",
                    IF MapHas(cache, key) THEN {"delete"} ELSE {})
  /\ UNCHANGED <<now, cleanupInterval, defaultTtl, maxSize, options, readme, result, api>>

clearMap(c) == <<>>

Clear ==
  /\ cache' = clearMap(cache)
  /\ lastOp' = Call("clear", "", "", None, Void, {"cleared"})
  /\ UNCHANGED <<now, cleanupInterval, defaultTtl, maxSize, options, readme, result, api>>

\* variant: the interval is never cleared
destroyTimer_keeps(h) == h

\* the timer handle after destroy: cleared and set to null when it was set
destroyTimer(h) == IF h THEN FALSE ELSE h

Destroy ==
  /\ cleanupInterval' = destroyTimer(cleanupInterval)
  /\ cache' = clearMap(cache)
  /\ lastOp' = Call("destroy", "", "", None, Void, {"cleared", "destroyed"})
  /\ UNCHANGED <<now, defaultTtl, maxSize, options, readme, result, api>>

(***************************************************************************)
(* size(), keys(): reads of the Map.                                       *)
(***************************************************************************)
size(c) == Len(c)
keys(c) == [i \in 1..Len(c) |-> c[i].key]

Size ==
  /\ lastOp' = Call("size", "", "", None, ToString(size(cache)), {})
  /\ UNCHANGED <<cache, now, cleanupInterval, defaultTtl, maxSize, options, readme, result, api>>

KeysCall ==
  /\ lastOp' = Call("keys", "", "", None, ToString(keys(cache)), {})
  /\ UNCHANGED <<cache, now, cleanupInterval, defaultTtl, maxSize, options, readme, result, api>>

(***************************************************************************)
(* The sweep: the setInterval callback fires while the handle is set.      *)
(***************************************************************************)
Sweep ==
  /\ cleanupInterval
  /\ cache' = cleanExpired(cache, now)
  /\ lastOp' = Call("sweep", "", "", None, Void,
                    IF Len(cleanExpired(cache, now)) < Len(cache) THEN {"cleanup"} ELSE {})
  /\ UNCHANGED <<now, cleanupInterval, defaultTtl, maxSize, options, readme, result, api>>

(***************************************************************************)
(* The clock.                                                              *)
(***************************************************************************)
Tick ==
  /\ now < MaxTime
  /\ now' = now + 1
  /\ lastOp' = Call("tick", "", "", None, Void, {})
  /\ UNCHANGED <<cache, cleanupInterval, defaultTtl, maxSize, options, readme, result, api>>

CacheNext ==
  \/ \E k \in Keys, d \in Data, ttl \in TtlArgs : Set(k, d, ttl)
  \/ \E k \in Keys : Get(k)
  \/ \E k \in Keys : Has(k)
  \/ \E k \in Keys : Delete(k)
  \/ Clear
  \/ Size
  \/ KeysCall
  \/ Destroy
  \/ Sweep
  \/ Tick

CacheSpec == CacheInit /\ [][CacheNext]_vars

\* the timer fires on its interval for as long as it is set, and time passes
CacheLiveSpec == CacheSpec /\ WF_vars(Sweep) /\ WF_vars(Tick)

(***************************************************************************)
(* What the claims speak of.                                               *)
(***************************************************************************)
\* the entries of a Map, as a set
Entries(c) == {c[i] : i \in 1..Len(c)}

\* the step is a call of op on key k (every action records its call in lastOp)
IsCall(op, k) == lastOp'.op = op /\ lastOp'.key = k

\* k's entry is in the store and its expiry has passed: now > createdAt + ttl
Stale(k) == MapHas(cache, k) /\ now > MapGet(cache, k).timestamp + MapGet(cache, k).ttl

\* k's entry is in the store and its expiry has not passed
Fresh(k) == MapHas(cache, k) /\ now <= MapGet(cache, k).timestamp + MapGet(cache, k).ttl

\* the constructor was given a maxSize that is 0 or negative
NonPositiveMaxSize == options.maxSize # None /\ options.maxSize[1] <= 0

\* the constructor was given a maxSize that is positive
PositiveMaxSize == options.maxSize # None /\ options.maxSize[1] > 0

\* C1: a get or has of an entry with now > createdAt + ttl returns absent
\* (null, false), removes the entry, and the size drops by one.
C1_StaleReadIsMiss ==
  [][\A k \in Keys :
       (Stale(k) /\ (IsCall("get", k) \/ IsCall("has", k))) =>
         /\ lastOp'.ret = (IF lastOp'.op = "get" THEN Null ELSE "false")
         /\ ~MapHas(cache', k)
         /\ size(cache') = size(cache) - 1]_vars

C1_Witness ==
  /\ lastOp.op = "get"
  /\ "expired" \in lastOp.log
  /\ lastOp.ret = Null
  /\ ~MapHas(cache, lastOp.key)

\* C2: the store never holds more than maxSize entries (stated for the caches
\* built with a positive maxSize; C10 is about the others).
C2_SizeBoundedByMaxSize == PositiveMaxSize => size(cache) <= maxSize

\* C3: at exactly maxSize entries, a set of a new key removes exactly one
\* entry, one with the smallest createdAt, and the size is maxSize afterwards.
C3_EvictsOldestAtCapacity ==
  [][\A k \in Keys :
       (PositiveMaxSize /\ size(cache) = maxSize /\ ~MapHas(cache, k) /\ IsCall("set", k)) =>
         /\ size(cache') = maxSize
         /\ \E e \in Entries(cache) :
              /\ \A f \in Entries(cache) : e.timestamp <= f.timestamp
              /\ ~MapHas(cache', e.key)
              /\ Entries(cache) \ {e} \subseteq Entries(cache')]_vars

\* C4: a get or has of an unexpired entry leaves the entry (data, createdAt,
\* ttl) as it was, and with it the insertion order and the entry evictOldest
\* would pick at any time; get returns the entry's data and has returns true.
C4_ReadsLeaveEntryAlone ==
  [][\A k \in Keys :
       (Fresh(k) /\ (IsCall("get", k) \/ IsCall("has", k))) =>
         /\ MapHas(cache', k)
         /\ MapGet(cache', k) = MapGet(cache, k)
         /\ keys(cache') = keys(cache)
         /\ \A t \in 0..MaxTime : oldestKeyOf(cache', t) = oldestKeyOf(cache, t)
         /\ lastOp'.ret = (IF lastOp'.op = "get" THEN MapGet(cache, k).data ELSE "true")]_vars

C4_Witness ==
  /\ lastOp.op = "get"
  /\ "hit" \in lastOp.log
  /\ MapHas(cache, lastOp.key)
  /\ MapGet(cache, lastOp.key).timestamp < now
  /\ lastOp.ret = MapGet(cache, lastOp.key).data

\* C5: set stores createdAt = now and the ttl the caller supplied, whatever
\* its value, and defaultTtl only when none was supplied.
C5_SetStoresGivenTtl ==
  [][lastOp'.op = "set" =>
       /\ MapHas(cache', lastOp'.key)
       /\ MapGet(cache', lastOp'.key).timestamp = now
       /\ MapGet(cache', lastOp'.key).ttl =
            (IF lastOp'.ttl = None THEN defaultTtl ELSE lastOp'.ttl[1])]_vars

\* C6: a key that is absent becomes present only by a set of that key.
C6_AbsentUntilSet ==
  [][\A k \in Keys :
       (~MapHas(cache, k) /\ MapHas(cache', k)) => IsCall("set", k)]_vars

C6_Witness ==
  /\ lastOp.op = "has"
  /\ lastOp.ret = "false"
  /\ ~MapHas(cache, lastOp.key)
  /\ cache # <<>>

\* C7: destroy empties the store, leaves no timer set and raises nothing,
\* also when the timer was already cleared; once the timer is cleared it
\* stays cleared and no sweep runs.
C7_DestroyStopsSweep ==
  [][/\ lastOp'.op = "destroy" =>
          (cache' = <<>> /\ ~cleanupInterval' /\ lastOp'.ret = Void)
     /\ ~cleanupInterval => (~cleanupInterval' /\ lastOp'.op # "sweep")]_vars

C7_Witness ==
  /\ lastOp.op = "destroy"
  /\ ~cleanupInterval
  /\ cache = <<>>

\* C8: a sweep deletes exactly the entries with now > createdAt + ttl and
\* leaves every other entry, and the order of those, unchanged.
C8_SweepDeletesExactlyExpired ==
  [][lastOp'.op = "sweep" =>
       /\ Entries(cache') = {e \in Entries(cache) : ~(now > e.timestamp + e.ttl)}
       /\ size(cache') = Cardinality(Entries(cache'))
       /\ \A i, j \in 1..Len(cache') :
            i < j => \E m, n \in 1..Len(cache) :
                       m < n /\ cache[m] = cache'[i] /\ cache[n] = cache'[j]]_vars

C8_Witness ==
  /\ lastOp.op = "sweep"
  /\ "cleanup" \in lastOp.log
  /\ cache # <<>>

\* C9: while the timer is set, an entry whose expiry lies within the modelled
\* time does not stay in the store for ever: it is eventually removed (or
\* replaced by a later set), without any read of it being needed.
SweepDue(k) ==
  /\ cleanupInterval
  /\ MapHas(cache, k)
  /\ MapGet(cache, k).timestamp + MapGet(cache, k).ttl < MaxTime

C9_SweepEventuallyRemoves == \A k \in Keys : SweepDue(k) ~> ~SweepDue(k)

C9_Witness ==
  /\ lastOp.op = "sweep"
  /\ "cleanup" \in lastOp.log
  /\ cleanupInterval
  /\ cache = <<>>

\* C10: a constructor call with a maxSize of 0 or less throws, so no cache
\* with such a bound is ever used.
C10_CtorRejectsNonPositiveMaxSize ==
  NonPositiveMaxSize => (lastOp.op = "new" /\ lastOp.ret = "throw")

\* C11: whatever the interleaving of sweeps and calls, get(k) returns the data
\* of the most recent set(k) exactly when that entry is still in the store and
\* unexpired, and null otherwise: a set(k) leaves k's entry holding its data,
\* no other step changes an entry it keeps, and get(k) returns the data of
\* k's entry when it is present and unexpired and null when it is not.
C11_GetReturnsLatestSet ==
  [][\A k \in Keys :
       /\ IsCall("set", k) =>
            (MapHas(cache', k) /\ MapGet(cache', k).data = lastOp'.data)
       /\ (MapHas(cache, k) /\ MapHas(cache', k) /\ ~IsCall("set", k)) =>
            MapGet(cache', k) = MapGet(cache, k)
       /\ IsCall("get", k) =>
            lastOp'.ret = (IF Fresh(k) THEN MapGet(cache, k).data ELSE Null)]_vars

C11_Witness ==
  /\ lastOp.op = "get"
  /\ lastOp.ret \in Data
  /\ cleanupInterval
  /\ size(cache) = 2
  /\ now = MaxTime

(***************************************************************************)
(* Part 2: ReadmeParser (services/readme-parser.ts).  A README is a string, *)
(* a sequence of characters; the regular expressions of the parser are      *)
(* operators that scan it position by position (positions count from 1).    *)
(***************************************************************************)

\* the longest text of the clean-up family is MaxPieces pieces long
MaxPieces == 4

LowerLetters ==
  {"a", "b", "c", "d", "e", "f", "g", "h", "i", "j", "k", "l", "m",
   "n", "o", "p", "q", "r", "s", "t", "u", "v", "w", "x", "y", "z"}
UpperLetters ==
  {"A", "B", "C", "D", "E", "F", "G", "H", "I", "J", "K", "L", "M",
   "N", "O", "P", "Q", "R", "S", "T", "U", "V", "W", "X", "Y", "Z"}
Digits == {"0", "1", "2", "3", "4", "5", "6", "7", "8", "9"}
\* \w
WordChars == LowerLetters \cup UpperLetters \cup Digits \cup {"_"}
\* \s (of the characters the texts use)
WhiteSpace == {" ", "\n", "\t", "\r"}
\* what `.` does not match
LineTerminators == {"\n", "\r"}
\* ['"]
Quotes == {"'", "\""}

LowerOf ==
  "A" :> "a" @@ "B" :> "b" @@ "C" :> "c" @@ "D" :> "d" @@ "E" :> "e" @@
  "F" :> "f" @@ "G" :> "g" @@ "H" :> "h" @@ "I" :> "i" @@ "J" :> "j" @@
  "K" :> "k" @@ "L" :> "l" @@ "M" :> "m" @@ "N" :> "n" @@ "O" :> "o" @@
  "P" :> "p" @@ "Q" :> "q" @@ "R" :> "r" @@ "S" :> "s" @@ "T" :> "t" @@
  "U" :> "u" @@ "V" :> "v" @@ "W" :> "w" @@ "X" :> "x" @@ "Y" :> "y" @@
  "Z" :> "z"

\* the character at position i, "" outside the string
Ch(s, i) == IF i >= 1 /\ i <= Len(s) THEN SubSeq(s, i, i) ELSE ""

\* the first and the last of a set of positions, 0 when it is empty
FirstOf(S) == IF S = {} THEN 0 ELSE CHOOSE j \in S : \A k \in S : j <= k
LastOf(S) == IF S = {} THEN 0 ELSE CHOOSE j \in S : \A k \in S : k <= j

\* String.prototype.toLowerCase, of s[i..j], by halves
RECURSIVE ToLowerBetween(_, _, _)
ToLowerBetween(s, i, j) ==
  IF i > j THEN ""
  ELSE IF i = j THEN (IF Ch(s, i) \in UpperLetters THEN LowerOf[Ch(s, i)] ELSE Ch(s, i))
  ELSE ToLowerBetween(s, i, (i + j) \div 2) \o ToLowerBetween(s, (i + j) \div 2 + 1, j)
toLowerCase(s) == ToLowerBetween(s, 1, Len(s))

\* the literal lit stands at position i of s
StartsWithAt(s, lit, i) ==
  i >= 1 /\ i + Len(lit) - 1 <= Len(s) /\ SubSeq(s, i, i + Len(lit) - 1) = lit

\* the first position >= i where lit stands, 0 when there is none
IndexOfFrom(s, lit, i) == FirstOf({j \in i..Len(s) : StartsWithAt(s, lit, j)})

\* the first position >= i whose character is not in class (Len(s) + 1 at the end)
RECURSIVE SkipClass(_, _, _)
SkipClass(s, i, class) ==
  IF i > Len(s) THEN Len(s) + 1
  ELSE IF Ch(s, i) \in class THEN SkipClass(s, i + 1, class)
  ELSE i

\* the first position >= i whose character is in class (Len(s) + 1 at the end)
SkipUntil(s, i, class) ==
  IF {j \in i..Len(s) : Ch(s, j) \in class} = {} THEN Len(s) + 1
  ELSE FirstOf({j \in i..Len(s) : Ch(s, j) \in class})

\* the last position <= i whose character is not in class (0 at the start)
RECURSIVE SkipClassBack(_, _, _)
SkipClassBack(s, i, class) ==
  IF i < 1 THEN 0
  ELSE IF Ch(s, i) \in class THEN SkipClassBack(s, i - 1, class)
  ELSE i

\* the same as IndexOfFrom with only `.` characters skipped: the search
\* ends at a line end
IndexInLine(s, lit, i) ==
  FirstOf({j \in i..SkipUntil(s, i, LineTerminators) : StartsWithAt(s, lit, j)})

\* String.prototype.trim
trim(s) ==
  IF SkipClass(s, 1, WhiteSpace) > Len(s) THEN ""
  ELSE SubSeq(s, SkipClass(s, 1, WhiteSpace), SkipClassBack(s, Len(s), WhiteSpace))

\* the number of newlines in s[i..j]
CountNewlines(s, i, j) == Cardinality({p \in i..j : Ch(s, p) = "\n"})

\* the last newline in s[i..j], 0 when there is none
LastNewline(s, i, j) == LastOf({p \in i..j : Ch(s, p) = "\n"})

(***************************************************************************)
(* The argument of the parser's functions: a value of some JavaScript type. *)
(***************************************************************************)
Str(s) == [type |-> "string", str |-> s]
NonStrings ==
  { [type |-> "null", str |-> ""],
    [type |-> "undefined", str |-> ""],
    [type |-> "number", str |-> "42"] }

\* variant: only the empty string is turned away
InvalidReadme_emptyOnly(r) == r.str = ""

\* !readme || typeof readme !== 'string'
InvalidReadme(r) == r.type # "string" \/ r.str = ""

(***************************************************************************)
(* cleanReadmeContent: four replacements, then trim.                       *)
(***************************************************************************)
\* /\[!\[.*?\]\(.*?\)\]\(.*?\)/ at position i: the position of its last
\* character, 0 when it does not match there
LinkedBadgeEnd(s, i) ==
  IF ~StartsWithAt(s, "[![", i) THEN 0
  ELSE LET a == IndexInLine(s, "](", i + 3)
           b == IF a = 0 THEN 0 ELSE IndexInLine(s, ")](", a + 2)
           c == IF b = 0 THEN 0 ELSE IndexInLine(s, ")", b + 3)
       IN  c

\* String.prototype.replace with the g flag: match after match, left to right
RECURSIVE RemoveLinkedBadges(_, _)
RemoveLinkedBadges(s, i) ==
  LET m == FirstOf({j \in i..Len(s) : LinkedBadgeEnd(s, j) > 0})
  IN  IF m = 0 THEN SubSeq(s, i, Len(s))
      ELSE SubSeq(s, i, m - 1) \o RemoveLinkedBadges(s, LinkedBadgeEnd(s, m) + 1)

\* /!\[.*?\]\(.*?shields\.io.*?\)/ at position i
ShieldsBadgeEnd(s, i) ==
  IF ~StartsWithAt(s, "![", i) THEN 0
  ELSE LET a == IndexInLine(s, "](", i + 2)
           b == IF a = 0 THEN 0 ELSE IndexInLine(s, "shields.io", a + 2)
           c == IF b = 0 THEN 0 ELSE IndexInLine(s, ")", b + 10)
       IN  c

\* String.prototype.replace with the g flag: match after match, left to right
RECURSIVE RemoveShieldsBadges(_, _)
RemoveShieldsBadges(s, i) ==
  LET m == FirstOf({j \in i..Len(s) : ShieldsBadgeEnd(s, j) > 0})
  IN  IF m = 0 THEN SubSeq(s, i, Len(s))
      ELSE SubSeq(s, i, m - 1) \o RemoveShieldsBadges(s, ShieldsBadgeEnd(s, m) + 1)

\* /<!--[\s\S]*?-->/ at position i
CommentEnd(s, i) ==
  IF ~StartsWithAt(s, "<!--", i) THEN 0
  ELSE IF IndexOfFrom(s, "-->", i + 4) = 0 THEN 0
  ELSE IndexOfFrom(s, "-->", i + 4) + 2

\* String.prototype.replace with the g flag: match after match, left to right
RECURSIVE RemoveComments(_, _)
RemoveComments(s, i) ==
  LET m == FirstOf({j \in i..Len(s) : CommentEnd(s, j) > 0})
  IN  IF m = 0 THEN SubSeq(s, i, Len(s))
      ELSE SubSeq(s, i, m - 1) \o RemoveComments(s, CommentEnd(s, m) + 1)

\* /\n\s*\n\s*\n/ at position i: a newline that starts a run of white space
\* with three newlines or more; the greedy match ends at the run's last newline
BlankLinesEnd(s, i) ==
  IF Ch(s, i) # "\n" THEN 0
  ELSE IF CountNewlines(s, i, SkipClass(s, i, WhiteSpace) - 1) < 3 THEN 0
  ELSE LastNewline(s, i, SkipClass(s, i, WhiteSpace) - 1)

RECURSIVE CollapseBlankLines(_, _)
CollapseBlankLines(s, i) ==
  LET m == FirstOf({j \in i..Len(s) : BlankLinesEnd(s, j) > 0})
  IN  IF m = 0 THEN SubSeq(s, i, Len(s))
      ELSE SubSeq(s, i, m - 1) \o "\n\n" \o CollapseBlankLines(s, BlankLinesEnd(s, m) + 1)

cleanReadmeContent(r) ==
  IF InvalidReadme(r) THEN ""
  ELSE LET noLinked == RemoveLinkedBadges(r.str, 1)
           noShields == RemoveShieldsBadges(noLinked, 1)
           noComments == RemoveComments(noShields, 1)
           collapsed == CollapseBlankLines(noComments, 1)
       IN  trim(collapsed)

(***************************************************************************)
(* extractInstallationInstructions: three first-match probes.  A probe's   *)
(* result is None (no match) or Some(the matched text).                     *)
(***************************************************************************)
\* /pod\s+['"][^'"]+['"]/i at position i of s (low is s in lower case): the
\* position of its last character, 0 when it does not match there
PodfileEnd(s, low, i) ==
  IF ~StartsWithAt(low, "pod", i) THEN 0
  ELSE IF Ch(s, i + 3) \notin WhiteSpace THEN 0
  ELSE LET k == SkipClass(s, i + 3, WhiteSpace)
           q == SkipUntil(s, k + 1, Quotes)
       IN  IF Ch(s, k) \in Quotes /\ q > k + 1 /\ q <= Len(s) THEN q ELSE 0

\* /github\s+['"][^'"]+\/[^'"]+['"]/i at position i
CarthageEnd(s, low, i) ==
  IF ~StartsWithAt(low, "github", i) THEN 0
  ELSE IF Ch(s, i + 6) \notin WhiteSpace THEN 0
  ELSE LET k == SkipClass(s, i + 6, WhiteSpace)
           q == SkipUntil(s, k + 1, Quotes)
       IN  IF /\ Ch(s, k) \in Quotes
              /\ q <= Len(s)
              /\ \E p \in (k + 2)..(q - 2) : Ch(s, p) = "/"
           THEN q ELSE 0

\* /https:\/\/github\.com\/[^\s)]+/ at position i
SpmEnd(s, i) ==
  IF ~StartsWithAt(s, "https://github.com/", i) THEN 0
  ELSE IF SkipUntil(s, i + 19, WhiteSpace \cup {")"}) = i + 19 THEN 0
  ELSE SkipUntil(s, i + 19, WhiteSpace \cup {")"}) - 1

\* String.prototype.match without the g flag: the first position that matches
PodfileMatch(s, low, i) ==
  LET m == FirstOf({j \in i..Len(s) : PodfileEnd(s, low, j) > 0})
  IN  IF m = 0 THEN None ELSE Some(SubSeq(s, m, PodfileEnd(s, low, m)))

CarthageMatch(s, low, i) ==
  LET m == FirstOf({j \in i..Len(s) : CarthageEnd(s, low, j) > 0})
  IN  IF m = 0 THEN None ELSE Some(SubSeq(s, m, CarthageEnd(s, low, m)))

SpmMatch(s, i) ==
  LET m == FirstOf({j \in i..Len(s) : SpmEnd(s, j) > 0})
  IN  IF m = 0 THEN None ELSE Some(SubSeq(s, m, SpmEnd(s, m)))

\* the extraction with the Carthage field made to depend on the Podfile probe
extractInstallationInstructions_carthageNeedsPod(r) ==
  IF r.type # "string"
  THEN [threw |-> TRUE, value |-> "TypeError"]
  ELSE [threw |-> FALSE,
        value |-> [podfile |-> PodfileMatch(r.str, toLowerCase(r.str), 1),
                   carthage |->
                     IF PodfileMatch(r.str, toLowerCase(r.str), 1) = None
                     THEN None
                     ELSE CarthageMatch(r.str, toLowerCase(r.str), 1),
                   spm |-> SpmMatch(r.str, 1)]]

\* readme.match(...) on a value that is no string throws a TypeError
extractInstallationInstructions(r) ==
  IF r.type # "string"
  THEN [threw |-> TRUE, value |-> "TypeError"]
  ELSE [threw |-> FALSE,
        value |-> [podfile |-> PodfileMatch(r.str, toLowerCase(r.str), 1),
                   carthage |-> CarthageMatch(r.str, toLowerCase(r.str), 1),
                   spm |-> SpmMatch(r.str, 1)]]

(***************************************************************************)
(* String.prototype.split('\n') and Array.prototype.join('\n').            *)
(***************************************************************************)
RECURSIVE SplitFrom(_, _)
SplitFrom(s, i) ==
  IF IndexOfFrom(s, "\n", i) = 0 THEN <<SubSeq(s, i, Len(s))>>
  ELSE <<SubSeq(s, i, IndexOfFrom(s, "\n", i) - 1)>> \o SplitFrom(s, IndexOfFrom(s, "\n", i) + 1)
split(s) == SplitFrom(s, 1)

RECURSIVE JoinFrom(_, _)
JoinFrom(lines, i) ==
  IF i > Len(lines) THEN ""
  ELSE IF i = Len(lines) THEN lines[i]
  ELSE lines[i] \o "\n" \o JoinFrom(lines, i + 1)
join(lines) == JoinFrom(lines, 1)

(***************************************************************************)
(* Headings.                                                               *)
(***************************************************************************)
\* the number of # characters a line starts with
Hashes(line) == SkipClass(line, 1, {"#"}) - 1

\* line.match(/^#{1,4}\s/)
IsHeading(line) == Hashes(line) \in 1..4 /\ Ch(line, Hashes(line) + 1) \in WhiteSpace

\* trimmed.match(/^#{1,6}\s/)
IsHeading6(line) == Hashes(line) \in 1..6 /\ Ch(line, Hashes(line) + 1) \in WhiteSpace

\* line.replace(/^#{1,4}\s*/, '').trim()
HeadingTitle(line) ==
  IF Hashes(line) = 0 THEN trim(line)
  ELSE IF Hashes(line) <= 4
       THEN trim(SubSeq(line, SkipClass(line, Hashes(line) + 1, WhiteSpace), Len(line)))
       ELSE trim(SubSeq(line, 5, Len(line)))

\* the alternatives of USAGE_SECTION_PATTERNS, in lower case
UsageWords ==
  {"usage", "how to use", "getting started", "quick start", "example", "examples",
   "installation", "install", "implementation", "integration", "setup", "configuration"}

\* USAGE_SECTION_PATTERNS.some(pattern => pattern.test(line))
IsUsageHeading(line) ==
  /\ Hashes(line) \in 1..4
  /\ \E w \in UsageWords :
       StartsWithAt(toLowerCase(line), w, SkipClass(line, Hashes(line) + 1, WhiteSpace))

(***************************************************************************)
(* extractCodeBlocks: CODE_BLOCK_PATTERN, a fence marker, an optional tag  *)
(* of word characters, white space up to a newline, the shortest body, a   *)
(* newline and a fence marker.                                             *)
(***************************************************************************)
\* the fence marker: three grave accents in the source; a string literal
\* here cannot hold that character and ~, like it, is in no character class
\* of the parser's patterns, so ~ is written for it in every text
Fence == "~~~"
\* what ends the body of a block
CloseFence == "\n" \o Fence

\* after the marker and the tag, \s* is greedy and the \n it must leave is
\* looked for from the end of the white-space run backwards: the newline at
\* n is taken when a closing marker follows it.  0: no newline will do.
FenceNewline(s, lo, n) ==
  LastOf({j \in lo..n : Ch(s, j) = "\n" /\ IndexOfFrom(s, CloseFence, j + 1) > 0})

\* the match of the pattern at position i
FenceMatch(s, i) ==
  IF ~StartsWithAt(s, Fence, i) THEN [found |-> FALSE]
  ELSE LET w == SkipClass(s, i + 3, WordChars)
           r == SkipClass(s, w, WhiteSpace)
           n == FenceNewline(s, w, r - 1)
           e == IndexOfFrom(s, CloseFence, n + 1)
       IN  IF n = 0 THEN [found |-> FALSE]
           ELSE [found |-> TRUE,
                 language |-> SubSeq(s, i + 3, w - 1),
                 code |-> SubSeq(s, n + 1, e - 1),
                 originalIndex |-> i - 1,
                 lastIndex |-> e + 3]

\* the loop of exec calls: match after match, each search starting where
\* the last match ended
RECURSIVE BlocksFrom(_, _)
BlocksFrom(s, i) ==
  LET m == FirstOf({j \in i..Len(s) : FenceMatch(s, j).found})
  IN  IF m = 0 THEN <<>>
      ELSE <<[code |-> FenceMatch(s, m).code,
              language |-> FenceMatch(s, m).language,
              originalIndex |-> FenceMatch(s, m).originalIndex,
              lastIndex |-> FenceMatch(s, m).lastIndex]>>
           \o BlocksFrom(s, FenceMatch(s, m).lastIndex + 1)

extractCodeBlocks(content) == BlocksFrom(content, 1)

(***************************************************************************)
(* isRelevantCodeBlock: the ordered chain of checks.                       *)
(***************************************************************************)
\* somewhere in s: lit, then white space, then a character of class
HasLitWsClass(s, lit, class) ==
  \E i \in 1..Len(s) :
    /\ StartsWithAt(s, lit, i)
    /\ Ch(s, i + Len(lit)) \in WhiteSpace
    /\ Ch(s, SkipClass(s, i + Len(lit), WhiteSpace)) \in class

\* somewhere in s: lit, then white space, then lit2
HasLitWsLit(s, lit, lit2) ==
  \E i \in 1..Len(s) :
    /\ StartsWithAt(s, lit, i)
    /\ Ch(s, i + Len(lit)) \in WhiteSpace
    /\ StartsWithAt(s, lit2, SkipClass(s, i + Len(lit), WhiteSpace))

Contains(s, lit) == IndexOfFrom(s, lit, 1) > 0

\* /^(version|changelog|license|copyright)/i
NoiseWord(t) ==
  \E w \in {"version", "changelog", "license", "copyright"} :
    StartsWithAt(toLowerCase(t), w, 1)

\* /^\d+\.\d+\.\d+/
NoiseVersion(t) ==
  LET a == SkipClass(t, 1, Digits)
      b == SkipClass(t, a + 1, Digits)
  IN  /\ a > 1 /\ Ch(t, a) = "."
      /\ b > a + 1 /\ Ch(t, b) = "."
      /\ Ch(t, b + 1) \in Digits

\* /^https?:\/\//
NoiseUrl(t) == StartsWithAt(t, "http://", 1) \/ StartsWithAt(t, "https://", 1)

\* /^[\w\s]*:[\w\s]*$/
NoiseKeyValue(t) ==
  LET a == SkipClass(t, 1, WordChars \cup WhiteSpace)
  IN  Ch(t, a) = ":" /\ SkipClass(t, a + 1, WordChars \cup WhiteSpace) = Len(t) + 1

\* /^\s*#\s*\w+\s*$/
NoiseComment(t) ==
  LET a == SkipClass(t, 1, WhiteSpace)
      b == SkipClass(t, a + 1, WhiteSpace)
      c == SkipClass(t, b, WordChars)
  IN  Ch(t, a) = "#" /\ c > b /\ SkipClass(t, c, WhiteSpace) = Len(t) + 1

\* irrelevantPatterns.some(pattern => pattern.test(code.trim()))
IsNoise(t) ==
  NoiseWord(t) \/ NoiseVersion(t) \/ NoiseUrl(t) \/ NoiseKeyValue(t) \/ NoiseComment(t)

relevantLanguages == {"swift", "objc", "objective-c", "ruby", "bash", "shell", "json", "plist"}

\* iosKeywords.some(keyword => new RegExp(keyword, 'i').test(code)); low is
\* the code in lower case
hasIosKeywords(low) ==
  \/ HasLitWsClass(low, "import", WordChars)
  \/ HasLitWsClass(low, "class", WordChars)
  \/ HasLitWsClass(low, "func", WordChars)
  \/ HasLitWsClass(low, "pod", Quotes)
  \/ \E w \in {"cocoapods", "podfile", "podspec", "uikit", "foundation", "swiftui",
               "@iboutlet", "@ibaction", "@objc", "viewdidload"} : Contains(low, w)
  \/ HasLitWsLit(low, "override", "func")

\* variant: the language allow-set is consulted before the noise patterns
relevanceRule_languageFirst(code, language) ==
  IF Len(trim(code)) < 10 THEN "short"
  ELSE IF language # "" /\ toLowerCase(language) \in relevantLanguages THEN "language"
  ELSE IF IsNoise(trim(code)) THEN "noise"
  ELSE IF hasIosKeywords(toLowerCase(code)) THEN "keyword"
  ELSE IF language = "" /\ Len(code) > 20 THEN "fallback"
  ELSE "none"

\* variant: no lower limit on the trimmed length
relevanceRule_noLengthCheck(code, language) ==
  IF IsNoise(trim(code)) THEN "noise"
  ELSE IF language # "" /\ toLowerCase(language) \in relevantLanguages THEN "language"
  ELSE IF hasIosKeywords(toLowerCase(code)) THEN "keyword"
  ELSE IF language = "" /\ Len(code) > 20 THEN "fallback"
  ELSE "none"

\* variant: the untagged fallback takes a body of 20 characters
relevanceRule_atLeastTwenty(code, language) ==
  IF Len(trim(code)) < 10 THEN "short"
  ELSE IF IsNoise(trim(code)) THEN "noise"
  ELSE IF language # "" /\ toLowerCase(language) \in relevantLanguages THEN "language"
  ELSE IF hasIosKeywords(toLowerCase(code)) THEN "keyword"
  ELSE IF language = "" /\ Len(code) >= 20 THEN "fallback"
  ELSE "none"

\* the check that decides, in the order of the code
relevanceRule(code, language) ==
  IF Len(trim(code)) < 10 THEN "short"
  ELSE IF IsNoise(trim(code)) THEN "noise"
  ELSE IF language # "" /\ toLowerCase(language) \in relevantLanguages THEN "language"
  ELSE IF hasIosKeywords(toLowerCase(code)) THEN "keyword"
  ELSE IF language = "" /\ Len(code) > 20 THEN "fallback"
  ELSE "none"

isRelevantCodeBlock(code, language) ==
  relevanceRule(code, language) \in {"language", "keyword", "fallback"}

(***************************************************************************)
(* detectLanguage                                                          *)
(***************************************************************************)
\* /^\s*pod\s+['"]/
LooksPodfile(code) ==
  LET a == SkipClass(code, 1, WhiteSpace)
  IN  /\ StartsWithAt(code, "pod", a)
      /\ Ch(code, a + 3) \in WhiteSpace
      /\ Ch(code, SkipClass(code, a + 3, WhiteSpace)) \in Quotes

\* /import\s+\w+|func\s+\w+|class\s+\w+.*\{|var\s+\w+|let\s+\w+/
LooksSwift(code) ==
  \/ HasLitWsClass(code, "import", WordChars)
  \/ HasLitWsClass(code, "func", WordChars)
  \/ \E i \in 1..Len(code) :
       /\ StartsWithAt(code, "class", i)
       /\ Ch(code, i + 5) \in WhiteSpace
       /\ Ch(code, SkipClass(code, i + 5, WhiteSpace)) \in WordChars
       /\ IndexInLine(code, "{", SkipClass(code, i + 5, WhiteSpace) + 1) > 0
  \/ HasLitWsClass(code, "var", WordChars)
  \/ HasLitWsClass(code, "let", WordChars)

\* /@interface|@implementation|@property|\*\w+|#import/
LooksObjC(code) ==
  \/ \E w \in {"@interface", "@implementation", "@property", "#import"} : Contains(code, w)
  \/ \E i \in 1..Len(code) : Ch(code, i) = "*" /\ Ch(code, i + 1) \in WordChars

\* /\$\s*\w+|sudo|brew|curl|git\s+clone/
LooksShell(code) ==
  \/ \E i \in 1..Len(code) :
       Ch(code, i) = "$" /\ Ch(code, SkipClass(code, i + 1, WhiteSpace)) \in WordChars
  \/ \E w \in {"sudo", "brew", "curl"} : Contains(code, w)
  \/ HasLitWsLit(code, "git", "clone")

\* /^\s*\{[\s\S]*\}\s*$/.test(code.trim()) && /["'][\w-]+["']\s*:/.test(code)
LooksJson(code) ==
  /\ Len(trim(code)) >= 2
  /\ Ch(trim(code), 1) = "{"
  /\ Ch(trim(code), Len(trim(code))) = "}"
  /\ \E i \in 1..Len(code) :
       LET k == SkipClass(code, i + 1, WordChars \cup {"-"})
       IN  /\ Ch(code, i) \in Quotes
           /\ k > i + 1
           /\ Ch(code, k) \in Quotes
           /\ Ch(code, SkipClass(code, k + 1, WhiteSpace)) = ":"

\* variant: the last resort is the empty string
detectLanguage_emptyFallback(code) ==
  IF LooksPodfile(code) THEN "ruby"
  ELSE IF LooksSwift(code) THEN "swift"
  ELSE IF LooksObjC(code) THEN "objective-c"
  ELSE IF LooksShell(code) THEN "bash"
  ELSE IF LooksJson(code) THEN "json"
  ELSE ""

\* variant: the Objective-C shapes are tried before the Swift shapes
detectLanguage_objcBeforeSwift(code) ==
  IF LooksPodfile(code) THEN "ruby"
  ELSE IF LooksObjC(code) THEN "objective-c"
  ELSE IF LooksSwift(code) THEN "swift"
  ELSE IF LooksShell(code) THEN "bash"
  ELSE IF LooksJson(code) THEN "json"
  ELSE "text"

detectLanguage(code) ==
  IF LooksPodfile(code) THEN "ruby"
  ELSE IF LooksSwift(code) THEN "swift"
  ELSE IF LooksObjC(code) THEN "objective-c"
  ELSE IF LooksShell(code) THEN "bash"
  ELSE IF LooksJson(code) THEN "json"
  ELSE "text"

(***************************************************************************)
(* extractBlockDescription                                                 *)
(***************************************************************************)
\* the lines are visited last to first; None stands for undefined
RECURSIVE DescriptionFrom(_, _)
DescriptionFrom(lines, i) ==
  IF i = 0 THEN None
  ELSE IF /\ trim(lines[i]) # ""
          /\ ~IsHeading6(trim(lines[i]))
          /\ Len(trim(lines[i])) > 10
       THEN Some(trim(lines[i]))
       ELSE DescriptionFrom(lines, i - 1)

extractBlockDescription(content, blockIndex) ==
  DescriptionFrom(split(SubSeq(content, 1, blockIndex)), Len(split(SubSeq(content, 1, blockIndex))))

(***************************************************************************)
(* extractCodeBlocksFromSection                                            *)
(***************************************************************************)
\* the example made of the block at (1-based) position index
ExampleOf(sectionTitle, content, blocks, index) ==
  [title |-> IF Len(blocks) = 1 THEN sectionTitle
             ELSE sectionTitle \o " " \o ToString(index),
   description |-> extractBlockDescription(content, blocks[index].originalIndex),
   code |-> trim(blocks[index].code),
   language |-> IF blocks[index].language # "" THEN blocks[index].language
                ELSE detectLanguage(blocks[index].code)]

RECURSIVE SectionExamplesFrom(_, _, _, _)
SectionExamplesFrom(sectionTitle, content, blocks, index) ==
  IF index > Len(blocks) THEN <<>>
  ELSE (IF isRelevantCodeBlock(blocks[index].code, blocks[index].language)
        THEN <<ExampleOf(sectionTitle, content, blocks, index)>>
        ELSE <<>>)
       \o SectionExamplesFrom(sectionTitle, content, blocks, index + 1)

extractCodeBlocksFromSection(sectionTitle, content) ==
  SectionExamplesFrom(sectionTitle, content, extractCodeBlocks(content), 1)

(***************************************************************************)
(* deduplicateExamples                                                     *)
(***************************************************************************)
\* s.replace(/\s+/g, ' ')
RECURSIVE CollapseWhiteSpace(_, _)
CollapseWhiteSpace(s, i) ==
  LET m == SkipUntil(s, i, WhiteSpace)
  IN  IF m > Len(s) THEN SubSeq(s, i, Len(s))
      ELSE SubSeq(s, i, m - 1) \o " " \o CollapseWhiteSpace(s, SkipClass(s, m, WhiteSpace))

\* example.code.replace(/\s+/g, ' ').trim().toLowerCase()
normalizedCode(code) == toLowerCase(trim(CollapseWhiteSpace(code, 1)))

\* variant: the key is the normalized code alone
hash_codeOnly(example) == normalizedCode(example.code)

\* the key: the language, a colon, the normalized code
hash(example) == example.language \o ":" \o normalizedCode(example.code)

RECURSIVE DedupFrom(_, _, _)
DedupFrom(examples, i, seen) ==
  IF i > Len(examples) THEN <<>>
  ELSE IF hash(examples[i]) \in seen
       THEN DedupFrom(examples, i + 1, seen)
       ELSE <<examples[i]>> \o DedupFrom(examples, i + 1, seen \cup {hash(examples[i])})

deduplicateExamples(examples) == DedupFrom(examples, 1, {})

(***************************************************************************)
(* parseUsageExamples                                                      *)
(***************************************************************************)
\* the loop's variables before any line is read
ScanStart ==
  [examples |-> <<>>, currentSection |-> "", isInUsageSection |-> FALSE, sectionContent |-> <<>>]

\* the examples of the section that ends, when it was a usage section
Flush(st) ==
  IF st.isInUsageSection /\ Len(st.sectionContent) > 0
  THEN st.examples \o extractCodeBlocksFromSection(st.currentSection, join(st.sectionContent))
  ELSE st.examples

\* one iteration of the loop over the lines
ScanLine(st, line) ==
  IF IsHeading(line)
  THEN [examples |-> Flush(st),
        currentSection |-> HeadingTitle(line),
        isInUsageSection |-> IsUsageHeading(line),
        sectionContent |-> <<>>]
  ELSE IF st.isInUsageSection
       THEN [st EXCEPT !.sectionContent = Append(@, line)]
       ELSE st

RECURSIVE ScanLines(_, _, _)
ScanLines(lines, i, st) ==
  IF i > Len(lines) THEN st
  ELSE ScanLines(lines, i + 1, ScanLine(st, lines[i]))

\* the examples found section by section
sectionExamples(s) ==
  Flush(ScanLines(split(s), 1, ScanStart))

\* the collection with the search of the whole text made unconditional
collectExamples_alwaysGlobal(s) ==
  sectionExamples(s) \o extractCodeBlocksFromSection("General Usage", s)

\* the list handed to deduplicateExamples
collectExamples(s) ==
  IF Len(sectionExamples(s)) = 0
  THEN extractCodeBlocksFromSection("General Usage", s)
  ELSE sectionExamples(s)

parseUsageExamples(r) ==
  IF InvalidReadme(r) THEN <<>>
  ELSE deduplicateExamples(collectExamples(r.str))

(***************************************************************************)
(* The texts the ReadmeParser calls are made with.                         *)
(***************************************************************************)
\* a fenced block: marker, tag, newline, body, newline, marker, newline
Block(tag, body) == Fence \o tag \o "\n" \o body \o CloseFence \o "\n"

\* the worked example of the usage-section test, with a short pod name
UsageAndInstallation ==
  "## Usage\n" \o Block("swift", "import Foo\nFoo().run()")
  \o "## Installation\n" \o Block("ruby", "pod 'Foo'")

\* the same with a pod name that makes the second body ten characters long
UsageAndInstallationLong ==
  "## Usage\n" \o Block("swift", "import Foo\nFoo().run()")
  \o "## Installation\n" \o Block("ruby", "pod 'Foos'")

FixedDocs == {UsageAndInstallation, UsageAndInstallationLong}

\* what stands before the block of a one-block text: nothing, a usage
\* heading, another heading, a line of prose, and prose before and after
\* a heading
SampleHeadings ==
  {"", "## Usage\n", "# About\n", "Some plain text line\n",
   "Some plain text line\n# About\n", "Some plain text line\n## Usage\n",
   "## Usage\nSome plain text line\n"}

\* the tag of the block of a one-block text
SampleTags == {"", "swift", "Swift", "text"}

\* bodies of 19, 20 and 21 characters of plain text, and 19 with two blanks
PlainBodies ==
  {"plain text, no code", "plain text, no code.", "plain text, no code..",
   "plain text, no code  "}

\* bodies the noise patterns are about
NoiseBodies ==
  {"1.2.3", "1.2.3-beta.1+build.5", "https://example.com/a/b/c",
   "name: some value here ok", "# justacomment", "License MIT 2020 text here"}

\* bodies the keyword list and the detector are about
CodeBodies ==
  {"import Foo\nFoo().run()", "pod 'Foo'", "pod 'FooBar'", "@interface Foo : NSObject",
   "$ brew install foo", "{\"name\": \"foo\"}", "class Foo {\n}", "UIKit rocks",
   "  NSString *name;  "}

\* bodies that several rules of the detector match, and one for each of the
\* last rules alone
OverlapBodies ==
  {"pod 'Foo'\nimport FooKit", "@implementation Foo\nvar x = 1;",
   "NSString *brew = @\"x\";", "{\"curl\": \"x\", \"a\": 1}",
   "{\"name\": \"foo\", \"a\": 1}", "$ brew install foobar",
   "class VC: UIViewController {\n  @IBOutlet weak var l: UILabel!\n  override func f() {}\n}"}

SampleBodies == PlainBodies \cup NoiseBodies \cup CodeBodies \cup OverlapBodies

OneBlockDocs ==
  {h \o Block(t, b) : h \in SampleHeadings, t \in SampleTags, b \in SampleBodies}

\* the longest text of the segment family is MaxSegments segments long
MaxSegments == 3

\* headings, blocks that differ in tag, letter case and white space only,
\* an opening marker nothing closes, a bare marker line
Segments ==
  {"## Usage\n", "# About\n",
   Block("swift", "let a = Foo()"), Block("swift", "LET  a =\nFOO()"),
   Block("ruby", "let a = Foo()"),
   Fence \o "swift\nlet b = Bar()\n", Fence \o "\n"}

RECURSIVE Concats(_, _)
Concats(pieces, n) ==
  IF n = 0 THEN {""}
  ELSE Concats(pieces, n - 1) \cup {t \o p : t \in Concats(pieces, n - 1), p \in pieces}

SegmentDocs == Concats(Segments, MaxSegments)

UsageDocs == FixedDocs \cup OneBlockDocs \cup SegmentDocs

\* a newline, the halves and the whole of a comment, a dash, two badges
CleanPieces ==
  {"\n", "<!-", "-", "-->", "<!--x-->", "[![b](u)](l)", "![s](shields.io)"}

CleanDocs == Concats(CleanPieces, MaxPieces)

\* texts the three installation probes are about
InstallDocs ==
  FixedDocs \cup
  {"no instructions here", "pod 'Foo', '~> 1.0'", "POD  \"Bar\"", "pod ''",
   "github \"a/b\"", "github 'ab'", "see https://github.com/a/b) for more",
   "pod 'Foo'\ngithub \"a/b\"\nhttps://github.com/a/b",
   "pod 'A'\npod 'B'", "GitHub \"a/b\" github 'c/d'",
   "https://github.com/ https://github.com/x/y https://github.com/z",
   "pod 'Foo' github 'ab'"}

ParseInputs == NonStrings \cup {Str(d) : d \in UsageDocs}
CleanInputs == NonStrings \cup {Str(d) : d \in CleanDocs}
InstallInputs == NonStrings \cup {Str(d) : d \in InstallDocs}

(***************************************************************************)
(* The calls.  The parser is a class of static methods without fields:     *)
(* a call reads its argument and returns (or throws).  The argument is     *)
(* drawn at the start, the calls are made with it.                         *)
(***************************************************************************)
Returned(op, value) == [op |-> op, threw |-> FALSE, value |-> value]

ParserInit ==
  /\ options = [ttl |-> Some(DEFAULT_TTL), maxSize |-> Some(DEFAULT_MAX_SIZE)]
  /\ defaultTtl = DEFAULT_TTL
  /\ maxSize = DEFAULT_MAX_SIZE
  /\ cache = <<>>
  /\ now = 0
  /\ cleanupInterval = TRUE
  /\ lastOp = Call("new", "", "", None, Void, {})
  /\ readme \in ParseInputs \cup CleanInputs \cup InstallInputs
  /\ result = NoResult
  /\ api = Idle(0)

ParseUsageExamples ==
  /\ readme \in ParseInputs
  /\ result' = Returned("parseUsageExamples", parseUsageExamples(readme))
  /\ UNCHANGED <<cache, now, cleanupInterval, defaultTtl, maxSize, options, lastOp, readme, api>>

CleanReadmeContent ==
  /\ readme \in CleanInputs
  /\ result' = Returned("cleanReadmeContent", cleanReadmeContent(readme))
  /\ UNCHANGED <<cache, now, cleanupInterval, defaultTtl, maxSize, options, lastOp, readme, api>>

ExtractInstallationInstructions ==
  /\ readme \in InstallInputs
  /\ result' = [op |-> "extractInstallationInstructions",
                threw |-> extractInstallationInstructions(readme).threw,
                value |-> extractInstallationInstructions(readme).value]
  /\ UNCHANGED <<cache, now, cleanupInterval, defaultTtl, maxSize, options, lastOp, readme, api>>

ParserNext ==
  \/ ParseUsageExamples
  \/ CleanReadmeContent
  \/ ExtractInstallationInstructions

ParserSpec == ParserInit /\ [][ParserNext]_vars

(***************************************************************************)
(* Claims about the ReadmeParser.                                          *)
(***************************************************************************)
IsResult(op) == result.op = op

\* the argument is the empty string or no string at all
EmptyOrNoString(r) == r.type # "string" \/ r.str = ""

\* C12: for an argument that is empty or no string, parseUsageExamples
\* returns the empty list and cleanReadmeContent the empty string, and
\* neither throws.
C12_InvalidInputYieldsEmpty ==
  EmptyOrNoString(readme) =>
    /\ IsResult("parseUsageExamples") => (~result.threw /\ result.value = <<>>)
    /\ IsResult("cleanReadmeContent") => (~result.threw /\ result.value = "")

C12_Witness ==
  /\ readme.type = "number"
  /\ IsResult("cleanReadmeContent")
  /\ result.value = ""

\* C13: extractInstallationInstructions throws for no argument, null and
\* undefined included.
C13_InstallNeverThrows ==
  IsResult("extractInstallationInstructions") => ~result.threw

\* C14: cleaning what cleanReadmeContent returned gives the same text again.
C14_CleanIsIdempotent ==
  IsResult("cleanReadmeContent") =>
    cleanReadmeContent(Str(result.value)) = result.value

\* the readme is the text d and parseUsageExamples has returned
Parsed(d) == IsResult("parseUsageExamples") /\ readme = Str(d)

\* the titles, languages and codes of a list of examples
Titles(examples) == [i \in 1..Len(examples) |-> examples[i].title]
Languages(examples) == [i \in 1..Len(examples) |-> examples[i].language]
Codes(examples) == [i \in 1..Len(examples) |-> examples[i].code]

\* C15 as stated: for the text with a Usage section holding the swift block
\* import Foo / Foo().run() and an Installation section holding the ruby
\* block pod 'Foo', parseUsageExamples returns exactly two examples, in
\* document order, titled Usage and Installation, swift and ruby, with the
\* trimmed bodies as code.
C15_UsageAndInstallationGiveTwo ==
  Parsed(UsageAndInstallation) =>
    /\ Titles(result.value) = <<"Usage", "Installation">>
    /\ Languages(result.value) = <<"swift", "ruby">>
    /\ Codes(result.value) = <<"import Foo\nFoo().run()", "pod 'Foo'">>

\* C15 amended: for that text parseUsageExamples returns the Usage example
\* alone, the body pod 'Foo' being 9 characters long, under the filter's
\* limit of 10; with a body of 10 characters (pod 'Foos') it returns the two
\* examples, in document order, with the tags as languages and the trimmed
\* bodies as code.
C15_ShortPodBodyIsDropped ==
  /\ Parsed(UsageAndInstallation) =>
       /\ Titles(result.value) = <<"Usage">>
       /\ Languages(result.value) = <<"swift">>
       /\ Codes(result.value) = <<"import Foo\nFoo().run()">>
  /\ Parsed(UsageAndInstallationLong) =>
       /\ Titles(result.value) = <<"Usage", "Installation">>
       /\ Languages(result.value) = <<"swift", "ruby">>
       /\ Codes(result.value) = <<"import Foo\nFoo().run()", "pod 'Foos'">>

C15_Witness ==
  /\ Parsed(UsageAndInstallation)
  /\ Len(result.value) = 1

Normalized(code) == trim(CollapseWhiteSpace(toLowerCase(code), 1))

SameKey(a, b) == a.language = b.language /\ Normalized(a.code) = Normalized(b.code)

\* the positions of the first occurrence of each key
FirstOccurrences(examples) ==
  {i \in 1..Len(examples) : \A j \in 1..(i - 1) : ~SameKey(examples[j], examples[i])}

\* the n-th position of a set of positions
Nth(K, n) == CHOOSE i \in K : Cardinality({k \in K : k <= i}) = n

\* C17: the list parseUsageExamples returns holds no two examples with the
\* same language and the same normalized code; it is made of the first
\* occurrence of each such key among the examples found, in their order.
C17_FirstOccurrencesInOrder ==
  (IsResult("parseUsageExamples") /\ ~EmptyOrNoString(readme)) =>
    LET found == collectExamples(readme.str)
        K == FirstOccurrences(found)
    IN  /\ \A i, j \in 1..Len(result.value) :
             i < j => ~SameKey(result.value[i], result.value[j])
        /\ Len(result.value) = Cardinality(K)
        /\ \A n \in 1..Len(result.value) : result.value[n] = found[Nth(K, n)]

C17_Witness ==
  /\ Parsed(Block("ruby", "let a = Foo()") \o Block("swift", "let a = Foo()")
            \o Block("swift", "LET  a =\nFOO()"))
  /\ Languages(result.value) = <<"ruby", "swift">>
  /\ Codes(result.value) = <<"let a = Foo()", "let a = Foo()">>

\* bodies that are a bare version number or a bare URL
BareVersionOrUrl == {"1.2.3", "1.2.3-beta.1+build.5", "https://example.com/a/b/c"}

\* what the chain of checks accepts: neither of the two rejecting checks
\* applies and one of the three accepting checks does
Accepted(b, t) ==
  /\ Len(trim(b)) >= 10
  /\ ~IsNoise(trim(b))
  /\ \/ t # "" /\ toLowerCase(t) \in relevantLanguages
     \/ hasIosKeywords(toLowerCase(b))
     \/ t = "" /\ Len(b) > 20

\* C18: the filter checks length, noise, allowed language, keyword and
\* untagged length in this order and the first check that decides wins: a
\* body that is a bare version or URL is turned away whatever its tag and
\* length.
C18_NoiseBeforeLanguage ==
  IsResult("parseUsageExamples") =>
    \A h \in SampleHeadings, t \in SampleTags, b \in SampleBodies :
      readme = Str(h \o Block(t, b)) =>
        /\ (result.value # <<>>) = Accepted(b, t)
        /\ b \in BareVersionOrUrl => result.value = <<>>

C18_Witness ==
  /\ Parsed("## Usage\n" \o Block("swift", "https://example.com/a/b/c"))
  /\ result.value = <<>>

\* what detectLanguage can return
DetectorNames == {"ruby", "swift", "objective-c", "bash", "json", "text"}

\* C19: every example has a language that is not empty, the block's tag
\* when it has one and a name the detector returns otherwise, and its code
\* is the block's body without leading and trailing white space.
C19_LanguagePopulatedCodeTrimmed ==
  /\ (IsResult("parseUsageExamples") /\ ~EmptyOrNoString(readme)) =>
       \A i \in 1..Len(result.value) :
         /\ result.value[i].language # ""
         /\ result.value[i].code = trim(result.value[i].code)
         /\ result.value[i].code # ""
  /\ (IsResult("parseUsageExamples") /\ result.value # <<>>) =>
       \A h \in SampleHeadings, t \in SampleTags, b \in SampleBodies :
         readme = Str(h \o Block(t, b)) =>
           /\ Codes(result.value) = <<trim(b)>>
           /\ t # "" => Languages(result.value) = <<t>>
           /\ t = "" => result.value[1].language \in DetectorNames

C19_Witness ==
  /\ Parsed(Block("", "plain text, no code  "))
  /\ Languages(result.value) = <<"text">>
  /\ Codes(result.value) = <<"plain text, no code">>

\* a closing fence: after a newline, a marker that no tag follows
HasClosingFence(s) ==
  \E i \in 1..Len(s) : StartsWithAt(s, CloseFence, i) /\ Ch(s, i + 4) \notin WordChars

\* C20: an opening fence that no closing fence follows gives no block: a
\* text in which every marker opens a fence gives no example.
C20_UnclosedFenceGivesNoBlock ==
  (IsResult("parseUsageExamples") /\ ~EmptyOrNoString(readme) /\ ~HasClosingFence(readme.str)) =>
    result.value = <<>>

\* the description the claim gives a block that the text h precedes: the
\* nearest line of more than 10 characters after the last heading of h
NearestSinceHeading(h) ==
  LET lines == split(h)
      k == LastOf({i \in 1..Len(lines) : IsHeading6(trim(lines[i]))})
      found == {i \in (k + 1)..Len(lines) : Len(trim(lines[i])) > 10}
  IN  IF found = {} THEN None ELSE Some(trim(lines[LastOf(found)]))

\* C21: the description of a block is the nearest line before it that is
\* not empty, is no heading and is longer than 10 characters, and the search
\* ends at the closest heading before the block: without such a line after
\* that heading the description is undefined.
C21_DescriptionStopsAtHeading ==
  (IsResult("parseUsageExamples") /\ result.value # <<>>) =>
    \A h \in SampleHeadings, t \in SampleTags, b \in SampleBodies :
      readme = Str(h \o Block(t, b)) =>
        result.value[1].description = NearestSinceHeading(h)

\* the fields an extraction sets: a field left out of the object is None
Instructions(podfile, carthage, spm) ==
  [podfile |-> podfile, carthage |-> carthage, spm |-> spm]

\* what each probe finds first in each text of InstallDocs
ExpectedInstructions ==
  {<<UsageAndInstallation, Instructions(Some("pod 'Foo'"), None, None)>>,
   <<UsageAndInstallationLong, Instructions(Some("pod 'Foos'"), None, None)>>,
   <<"no instructions here", Instructions(None, None, None)>>,
   <<"pod 'Foo', '~> 1.0'", Instructions(Some("pod 'Foo'"), None, None)>>,
   <<"POD  \"Bar\"", Instructions(Some("POD  \"Bar\""), None, None)>>,
   <<"pod ''", Instructions(None, None, None)>>,
   <<"github \"a/b\"", Instructions(None, Some("github \"a/b\""), None)>>,
   <<"github 'ab'", Instructions(None, None, None)>>,
   <<"see https://github.com/a/b) for more",
     Instructions(None, None, Some("https://github.com/a/b"))>>,
   <<"pod 'Foo'\ngithub \"a/b\"\nhttps://github.com/a/b",
     Instructions(Some("pod 'Foo'"), Some("github \"a/b\""),
                  Some("https://github.com/a/b"))>>,
   <<"pod 'A'\npod 'B'", Instructions(Some("pod 'A'"), None, None)>>,
   <<"GitHub \"a/b\" github 'c/d'",
     Instructions(None, Some("GitHub \"a/b\""), None)>>,
   <<"https://github.com/ https://github.com/x/y https://github.com/z",
     Instructions(None, None, Some("https://github.com/x/y"))>>,
   <<"pod 'Foo' github 'ab'", Instructions(Some("pod 'Foo'"), None, None)>>}

\* C22: for a text, extractInstallationInstructions sets each of podfile,
\* carthage and spm exactly when its own probe matches somewhere, to the first
\* match of that probe, whatever the other probes find; without any match the
\* result is the empty object.
C22_EachFieldFromItsOwnProbe ==
  (IsResult("extractInstallationInstructions") /\ readme.type = "string") =>
    /\ ~result.threw
    /\ \E e \in ExpectedInstructions : readme.str = e[1]
    /\ \A e \in ExpectedInstructions :
         readme.str = e[1] => result.value = e[2]

\* the Carthage line alone: carthage is set while podfile and spm are not
C22_Witness ==
  /\ IsResult("extractInstallationInstructions")
  /\ readme = Str("github \"a/b\"")
  /\ result.value = Instructions(None, Some("github \"a/b\""), None)

\* the title of an example found by the search of the whole text
IsGeneralUsage(title) == StartsWithAt(title, "General Usage", 1)

\* the titles, languages and codes returned for texts with blocks inside and
\* outside a usage section
ExpectedExamples ==
  LET swift == Block("swift", "let a = Foo()")
      ruby == Block("ruby", "let a = Foo()")
      unclosed == Fence \o "swift\nlet b = Bar()\n"
      code == "let a = Foo()"
  IN  {<<ruby \o "## Usage\n" \o swift, <<"Usage">>, <<"swift">>, <<code>> >>,
       <<"## Usage\n" \o swift \o ruby,
         <<"Usage 1", "Usage 2">>, <<"swift", "ruby">>, <<code, code>> >>,
       <<"## Usage\n" \o swift \o "# About\n", <<"Usage">>, <<"swift">>, <<code>> >>,
       <<"# About\n" \o swift, <<"General Usage">>, <<"swift">>, <<code>> >>,
       <<"## Usage\n" \o "# About\n" \o swift,
         <<"General Usage">>, <<"swift">>, <<code>> >>,
       <<ruby \o "## Usage\n" \o unclosed,
         <<"General Usage">>, <<"ruby">>, <<code>> >>,
       <<ruby \o "## Usage\n", <<"General Usage">>, <<"ruby">>, <<code>> >>,
       <<swift \o "# About\n" \o "## Usage\n",
         <<"General Usage">>, <<"swift">>, <<code>> >>}

\* C23: the search of the whole text under the title General Usage runs
\* exactly when the sections gave no example: the examples of one result are
\* either all titled General Usage or none is, and when a usage section gave
\* an example, a block outside the usage sections (before the first heading
\* included) is not in the result.
C23_FallbackOnlyWhenSectionsGiveNothing ==
  IsResult("parseUsageExamples") =>
    /\ \A i, j \in 1..Len(result.value) :
         IsGeneralUsage(result.value[i].title)
           <=> IsGeneralUsage(result.value[j].title)
    /\ \A e \in ExpectedExamples :
         readme = Str(e[1]) =>
           /\ Titles(result.value) = e[2]
           /\ Languages(result.value) = e[3]
           /\ Codes(result.value) = e[4]

\* a ruby block before the first heading and a swift block in the Usage
\* section: only the swift block is returned
C23_Witness ==
  /\ Parsed(Block("ruby", "let a = Foo()") \o "## Usage\n"
            \o Block("swift", "let a = Foo()"))
  /\ Titles(result.value) = <<"Usage">>
  /\ Languages(result.value) = <<"swift">>

\* the language of the example an untagged block with the given body becomes
DetectedLanguages ==
  {<<"pod 'FooBar'", "ruby">>,
   <<"pod 'Foo'\nimport FooKit", "ruby">>,
   <<"import Foo\nFoo().run()", "swift">>,
   <<"class Foo {\n}", "swift">>,
   <<"class VC: UIViewController {\n  @IBOutlet weak var l: UILabel!\n  override func f() {}\n}",
     "swift">>,
   <<"@implementation Foo\nvar x = 1;", "swift">>,
   <<"@interface Foo : NSObject", "objective-c">>,
   <<"NSString *brew = @\"x\";", "objective-c">>,
   <<"$ brew install foobar", "bash">>,
   <<"{\"curl\": \"x\", \"a\": 1}", "bash">>,
   <<"{\"name\": \"foo\", \"a\": 1}", "json">>,
   <<"UIKit rocks", "text">>,
   <<"plain text, no code..", "text">>}

\* C24: the detector is asked only about a block without a tag, and it tries
\* its rules in the order install line (ruby), Swift shapes (swift),
\* Objective-C shapes (objective-c), shell shapes (bash), object in braces
\* with a quoted key (json), else text: of several matching rules the
\* earliest decides, and a tagged block keeps its tag whatever its body.
C24_EarliestDetectorRuleDecides ==
  IsResult("parseUsageExamples") =>
    /\ \A h \in SampleHeadings, e \in DetectedLanguages :
         readme = Str(h \o Block("", e[1])) =>
           Languages(result.value) = <<e[2]>>
    /\ \A h \in SampleHeadings, t \in SampleTags \ {""}, b \in OverlapBodies :
         (readme = Str(h \o Block(t, b)) /\ result.value # <<>>) =>
           Languages(result.value) = <<t>>

\* an untagged body with an Objective-C directive and a Swift declaration
C24_Witness ==
  /\ Parsed("## Usage\n" \o Block("", "@implementation Foo\nvar x = 1;"))
  /\ Languages(result.value) = <<"swift">>

\* C30: a set(k, v) for a key the store already holds only replaces k's
\* entry: the set of keys is the same after it as before, also when the store
\* is at maxSize, so that overwriting never evicts another key.
C30_OverwriteKeepsKeySet ==
  [][\A k \in Keys :
       (IsCall("set", k) /\ MapHas(cache, k)) =>
         MapKeys(cache') = MapKeys(cache)]_vars

(***************************************************************************)
(* Part 3: the retry wrapper (utils/error-handler.ts), the CocoaPods API   *)
(* client over the cache (services/cocoapods-api.ts) and the tool          *)
(* getPackageReadme (tools/get-package-readme.ts).  A call runs in steps:  *)
(* its start up to the first await, one step for every settled attempt,    *)
(* one for every timer that ends a delay, and its return to the caller.    *)
(***************************************************************************)

\* the number of calls one run makes
MaxCalls == 2

\* DEFAULT_RETRY_CONFIG.maxRetries
DEFAULT_MAX_RETRIES == 3
\* cache.set(cacheKey, data, 600000)
SEARCH_TTL == 600000
\* searchPackages({ query: packageName, limit: 10 })
VERIFY_LIMIT == 10

\* DEFAULT_RETRY_CONFIG.retryableStatusCodes
retryableStatusCodes == {429, 500, 502, 503, 504}

(***************************************************************************)
(* The error classes (types/index.ts): mcp says whether the error is an    *)
(* instance of PackageReadmeMcpError.                                      *)
(***************************************************************************)
PackageReadmeMcpError(class, statusCode) ==
  [class |-> class, mcp |-> TRUE, statusCode |-> statusCode]
PackageNotFoundError == PackageReadmeMcpError("PackageNotFoundError", Some(404))
RateLimitError == PackageReadmeMcpError("RateLimitError", Some(429))
NetworkError == PackageReadmeMcpError("NetworkError", None)
\* new PackageReadmeMcpError(message, code, 503), thrown by a caller's operation
ServiceUnavailable == PackageReadmeMcpError("PackageReadmeMcpError", Some(503))
\* new Error(message)
PlainError == [class |-> "Error", mcp |-> FALSE, statusCode |-> None]

\* the first test is instanceof PackageReadmeMcpError, and every NetworkError
\* is one
isRetryableError(error) ==
  IF error.mcp
  THEN error.statusCode # None /\ error.statusCode[1] \in retryableStatusCodes
  ELSE IF error.class = "NetworkError" THEN TRUE
  ELSE FALSE

\* createRateLimitError for 429, createNetworkError from 500 on, and a
\* NetworkError for every other status
handleHttpError(status) ==
  IF status = 429 THEN RateLimitError
  ELSE IF status >= 500 THEN NetworkError
  ELSE NetworkError

(***************************************************************************)
(* What an operation returns or throws.                                    *)
(***************************************************************************)
Return(value) == [threw |-> FALSE, error |-> NoError, value |-> value]
Throw(error) == [threw |-> TRUE, error |-> error, value |-> NoValue]

(***************************************************************************)
(* withRetry: what follows a failed attempt.                               *)
(***************************************************************************)
\* variant: one more attempt than maxRetries + 1
afterFailure_oneMoreAttempt(attempt, maxRetries, error) ==
  IF attempt > maxRetries + 1 THEN "throw"
  ELSE IF ~isRetryableError(error) THEN "throw"
  ELSE "wait"

afterFailure(attempt, maxRetries, error) ==
  IF attempt > maxRetries THEN "throw"
  ELSE IF ~isRetryableError(error) THEN "throw"
  ELSE "wait"

(***************************************************************************)
(* The registry and the network.                                           *)
(***************************************************************************)
\* the pods the registry holds, and the pods its search index lists: the
\* index still lists a pod that was removed
Registry == {"AlamofireImage"}
SearchIndex == Registry \cup {"OldPod"}

\* a settled fetch: aborted by the timeout, rejected, or a response
Aborted == [kind |-> "abort", status |-> 0]
Rejected == [kind |-> "reject", status |-> 0]
Response(status) == [kind |-> "response", status |-> status]

\* response.ok
ok(status) == status >= 200 /\ status <= 299

\* the failures any request can meet
Failures == {Aborted, Rejected} \cup {Response(s) : s \in {403, 429, 500, 503}}

\* what the server can answer to the request of an API call
Answers(op, name) ==
  Failures \cup
  (IF op = "getPodInfo"
   THEN (IF name \in Registry THEN {Response(200)} ELSE {Response(404)})
   ELSE {Response(200)})

\* response.json(): name and limit say which request the response answers
PodInfoData(podName) ==
  [kind |-> "podInfo", name |-> podName, limit |-> 0, pods |-> {}]
SearchData(query, limit) ==
  [kind |-> "search", name |-> query, limit |-> limit,
   pods |-> {n \in SearchIndex : Contains(n, query)}]
\* what a caller's own operation returns
GenericValue == [kind |-> "value", name |-> "", limit |-> 0, pods |-> {}]

\* fetchWithTimeout: an abort and a rejection become a NetworkError
fetchWithTimeout(r) ==
  IF r.kind = "abort" THEN Throw(NetworkError)
  ELSE IF r.kind = "reject" THEN Throw(NetworkError)
  ELSE Return(NoValue)

(***************************************************************************)
(* Buffer.from(query).toString('base64')                                   *)
(***************************************************************************)
UpperString == "ABCDEFGHIJKLMNOPQRSTUVWXYZ"
LowerString == "abcdefghijklmnopqrstuvwxyz"
DigitString == "0123456789"
Base64Alphabet == UpperString \o LowerString \o DigitString \o "+/"

\* the place of a character in a string, 0 when it is not there
PlaceIn(str, c) == FirstOf({i \in 1..Len(str) : Ch(str, i) = c})

\* the byte of a character (the characters of the queries are ASCII)
ByteOf(c) ==
  IF PlaceIn(UpperString, c) > 0 THEN 64 + PlaceIn(UpperString, c)
  ELSE IF PlaceIn(LowerString, c) > 0 THEN 96 + PlaceIn(LowerString, c)
  ELSE IF PlaceIn(DigitString, c) > 0 THEN 47 + PlaceIn(DigitString, c)
  ELSE IF c = " " THEN 32
  ELSE IF c = "-" THEN 45
  ELSE IF c = "_" THEN 95
  ELSE 63

Base64Char(n) == Ch(Base64Alphabet, n + 1)

\* the four characters for the bytes s[i..i+2], padded when s ends before
Base64Group(s, i) ==
  LET b1 == ByteOf(Ch(s, i))
      b2 == IF i + 1 <= Len(s) THEN ByteOf(Ch(s, i + 1)) ELSE 0
      b3 == IF i + 2 <= Len(s) THEN ByteOf(Ch(s, i + 2)) ELSE 0
      v == b1 * 65536 + b2 * 256 + b3
  IN  Base64Char((v \div 262144) % 64) \o Base64Char((v \div 4096) % 64)
      \o (IF i + 1 <= Len(s) THEN Base64Char((v \div 64) % 64) ELSE "=")
      \o (IF i + 2 <= Len(s) THEN Base64Char(v % 64) ELSE "=")

RECURSIVE Base64From(_, _)
Base64From(s, i) ==
  IF i > Len(s) THEN "" ELSE Base64Group(s, i) \o Base64From(s, i + 3)

(***************************************************************************)
(* CacheKeys                                                               *)
(***************************************************************************)
podInfo(podName) == "pod_info:" \o podName

\* the hash is the base64 text of the query cut by slice(0, 16)
searchResults(query, limit) ==
  LET base64 == Base64From(query, 1)
      queryHash == IF Len(base64) <= 16 THEN base64 ELSE SubSeq(base64, 1, 16)
  IN  "search:" \o queryHash \o ":" \o ToString(limit)

\* the key of an API call
cacheKeyOf(op, name, limit) ==
  IF op = "getPodInfo" THEN podInfo(name) ELSE searchResults(name, limit)

\* the ttl argument of the call's cache.set
ttlOf(op) == IF op = "getPodInfo" THEN None ELSE Some(SEARCH_TTL)

\* `if (cached)`: cache.get returned the data of an entry, an object
Hit(c, key, t) == MapHas(c, key) /\ ~Expired(MapGet(c, key), t)

(***************************************************************************)
(* The operations handed to withRetry.                                     *)
(***************************************************************************)
podInfoOperation(podName, r) ==
  IF fetchWithTimeout(r).threw THEN fetchWithTimeout(r)
  ELSE IF r.status = 404 THEN Throw(PackageNotFoundError)
  ELSE IF ~ok(r.status) THEN Throw(handleHttpError(r.status))
  ELSE Return(PodInfoData(podName))

searchOperation(query, limit, r) ==
  IF fetchWithTimeout(r).threw THEN fetchWithTimeout(r)
  ELSE IF ~ok(r.status) THEN Throw(handleHttpError(r.status))
  ELSE Return(SearchData(query, limit))

\* what a caller's own operation can do
GenericOutcomes ==
  {Return(GenericValue), Throw(PlainError), Throw(NetworkError),
   Throw(ServiceUnavailable), Throw(RateLimitError)}

\* the ways the attempt of a call can end
Settlements(a) ==
  IF a.op = "withRetry" THEN GenericOutcomes
  ELSE IF a.op = "getPodInfo"
       THEN {podInfoOperation(a.name, r) : r \in Answers(a.op, a.name)}
       ELSE {searchOperation(a.name, a.limit, r) : r \in Answers(a.op, a.name)}

(***************************************************************************)
(* The start of a call: the look into the cache, then the first attempt.   *)
(***************************************************************************)
startCall(a, op, name, limit, maxRetries, c, t) ==
  LET fresh == [a EXCEPT !.op = op, !.name = name, !.limit = limit,
                         !.maxRetries = maxRetries, !.attempt = 0,
                         !.calls = 0, !.waits = 0, !.fromCache = FALSE,
                         !.before = c, !.threw = FALSE, !.error = NoError,
                         !.value = NoValue]
  IN  IF op # "withRetry" /\ Hit(c, cacheKeyOf(op, name, limit), t)
      THEN [fresh EXCEPT !.pc = "done", !.fromCache = TRUE,
                         !.value = MapGet(c, cacheKeyOf(op, name, limit)).data]
      ELSE [fresh EXCEPT !.pc = "attempt", !.attempt = 1]

\* cache.get deletes the entry it finds expired
cacheAfterStart(op, name, limit, c, t) ==
  IF op = "withRetry" THEN c ELSE getMap(c, cacheKeyOf(op, name, limit), t)

\* variant: the outcome of a failed attempt is cached as well
cacheAfterAttempt_alsoOnError(c, a, o, t) ==
  IF a.op = "withRetry" THEN c
  ELSE setMap(c, cacheKeyOf(a.op, a.name, a.limit), o.value, ttlOf(a.op), t)

\* cache.set(cacheKey, data) is the last statement but one of the operation
cacheAfterAttempt(c, a, o, t) ==
  IF o.threw \/ a.op = "withRetry" THEN c
  ELSE setMap(c, cacheKeyOf(a.op, a.name, a.limit), o.value, ttlOf(a.op), t)

\* one pass of the loop of withRetry, the attempt having ended as o
afterAttempt(a, o) ==
  IF ~o.threw
  THEN [a EXCEPT !.pc = "done", !.calls = @ + 1, !.threw = FALSE, !.value = o.value]
  ELSE IF afterFailure(a.attempt, a.maxRetries, o.error) = "throw"
       THEN [a EXCEPT !.pc = "done", !.calls = @ + 1, !.threw = TRUE, !.error = o.error]
       ELSE [a EXCEPT !.pc = "waiting", !.calls = @ + 1, !.error = o.error]

(***************************************************************************)
(* validatePodName, sanitizeSearchQuery                                    *)
(***************************************************************************)
\* /^[a-zA-Z][a-zA-Z0-9_-]*$/ and at most 214 characters
validPodName(name) ==
  /\ Len(name) >= 1
  /\ Len(name) <= 214
  /\ Ch(name, 1) \in LowerLetters \cup UpperLetters
  /\ \A i \in 1..Len(name) : Ch(name, i) \in WordChars \cup {"-"}

\* query.replace(/[<>\"'&]/g, '')
RECURSIVE RemoveDangerous(_, _)
RemoveDangerous(s, i) ==
  LET m == FirstOf({j \in i..Len(s) : Ch(s, j) \in {"<", ">", "\"", "'", "&"}})
  IN  IF m = 0 THEN SubSeq(s, i, Len(s))
      ELSE SubSeq(s, i, m - 1) \o RemoveDangerous(s, m + 1)

sanitizeSearchQuery(query) ==
  trim(CollapseWhiteSpace(RemoveDangerous(query, 1), 1))

(***************************************************************************)
(* The calls.                                                              *)
(***************************************************************************)
\* the configurations withRetry is called with, the pod names and the queries
RetryConfigs == {0, 1, DEFAULT_MAX_RETRIES}
PodNames == {"AlamofireImage", "AlamofireImages"}
PackageNames == PodNames \cup {"OldPod", "-x"}
Queries == {"AlamofireImage", "AlamofireImages"}
Limits == {VERIFY_LIMIT, 20}
\* CACHE_TTL of the environment: unset, and one millisecond
CacheTtls == {DEFAULT_TTL, 1}

ApiInit ==
  /\ options \in {[ttl |-> Some(t), maxSize |-> Some(DEFAULT_MAX_SIZE)] : t \in CacheTtls}
  /\ defaultTtl = OrDefault(options.ttl, DEFAULT_TTL)
  /\ maxSize = OrDefault(options.maxSize, DEFAULT_MAX_SIZE)
  /\ cache = <<>>
  /\ now = 0
  /\ cleanupInterval = TRUE
  /\ lastOp = Call("new", "", "", None, Void, {})
  /\ readme = NoReadme
  /\ result = NoResult
  /\ api = Idle(0)

\* withRetry(operation, config)
WithRetryStart(maxRetries) ==
  /\ api.pc = "idle"
  /\ api.finished < MaxCalls
  /\ api' = startCall(Idle(api.finished), "withRetry", "", 0, maxRetries, cache, now)
  /\ UNCHANGED <<cache, now, cleanupInterval, defaultTtl, maxSize, options, lastOp, readme, result>>

\* cocoaPodsAPI.getPodInfo(podName)
GetPodInfoStart(podName) ==
  /\ api.pc = "idle"
  /\ api.finished < MaxCalls
  /\ api' = startCall(Idle(api.finished), "getPodInfo", podName, 0,
                      DEFAULT_MAX_RETRIES, cache, now)
  /\ cache' = cacheAfterStart("getPodInfo", podName, 0, cache, now)
  /\ UNCHANGED <<now, cleanupInterval, defaultTtl, maxSize, options, lastOp, readme, result>>

\* cocoaPodsAPI.searchPods(query, limit)
SearchPodsStart(query, limit) ==
  /\ api.pc = "idle"
  /\ api.finished < MaxCalls
  /\ api' = startCall(Idle(api.finished), "searchPods", query, limit,
                      DEFAULT_MAX_RETRIES, cache, now)
  /\ cache' = cacheAfterStart("searchPods", query, limit, cache, now)
  /\ UNCHANGED <<now, cleanupInterval, defaultTtl, maxSize, options, lastOp, readme, result>>

\* the attempt of the call in progress settles
Attempt ==
  /\ api.pc = "attempt"
  /\ \E o \in Settlements(api) :
       /\ api' = afterAttempt(api, o)
       /\ cache' = cacheAfterAttempt(cache, api, o, now)
  /\ UNCHANGED <<now, cleanupInterval, defaultTtl, maxSize, options, lastOp, readme, result>>

\* the timer of the delay fires
Wake ==
  /\ api.pc = "waiting"
  /\ api' = [api EXCEPT !.pc = "attempt", !.attempt = @ + 1, !.waits = @ + 1]
  /\ UNCHANGED <<cache, now, cleanupInterval, defaultTtl, maxSize, options, lastOp, readme, result>>

\* getPackageReadme({ package_name }): the validation, then verifyPackageExists,
\* which searches for the name through searchPackages
GetPackageReadmeStart(package_name) ==
  /\ api.pc = "idle"
  /\ api.finished < MaxCalls
  /\ IF ~validPodName(package_name)
     THEN /\ api' = [Idle(api.finished) EXCEPT
                       !.tool = "getPackageReadme", !.pkg = package_name,
                       !.toolPc = "done", !.pc = "done", !.toolThrew = TRUE]
          /\ cache' = cache
     ELSE /\ api' = startCall([Idle(api.finished) EXCEPT
                                 !.tool = "getPackageReadme", !.pkg = package_name,
                                 !.toolPc = "search"],
                              "searchPods", sanitizeSearchQuery(package_name),
                              VERIFY_LIMIT, DEFAULT_MAX_RETRIES, cache, now)
          /\ cache' = cacheAfterStart("searchPods", sanitizeSearchQuery(package_name),
                                      VERIFY_LIMIT, cache, now)
  /\ UNCHANGED <<now, cleanupInterval, defaultTtl, maxSize, options, lastOp, readme, result>>

\* what getPackageReadme does once the search has ended
afterSearch(a, c, t) ==
  IF a.threw
  THEN [a EXCEPT !.toolPc = "done", !.toolThrew = TRUE]
  ELSE IF a.pkg \notin a.value.pods
       THEN [a EXCEPT !.toolPc = "done", !.toolThrew = TRUE, !.absent = "search"]
       ELSE startCall([a EXCEPT !.toolPc = "podInfo"], "getPodInfo", a.pkg, 0,
                      DEFAULT_MAX_RETRIES, c, t)

\* searchPackages has ended: the exact match, then fetchPodInfo
AfterSearch ==
  /\ api.tool = "getPackageReadme"
  /\ api.toolPc = "search"
  /\ api.pc = "done"
  /\ api' = afterSearch(api, cache, now)
  /\ cache' = IF ~api.threw /\ api.pkg \in api.value.pods
              THEN cacheAfterStart("getPodInfo", api.pkg, 0, cache, now)
              ELSE cache
  /\ UNCHANGED <<now, cleanupInterval, defaultTtl, maxSize, options, lastOp, readme, result>>

\* what getPackageReadme does once getPodInfo has ended
afterPodInfo(a) ==
  IF a.threw /\ a.error.class \in {"PackageNotFoundError", "VersionNotFoundError"}
  THEN [a EXCEPT !.toolPc = "done", !.toolThrew = FALSE, !.exists = FALSE,
                 !.absent = "podInfo"]
  ELSE IF a.threw
       THEN [a EXCEPT !.toolPc = "done", !.toolThrew = TRUE]
       ELSE [a EXCEPT !.toolPc = "done", !.toolThrew = FALSE, !.exists = TRUE]

\* getPodInfo has ended: the response, or the catch clause
AfterPodInfo ==
  /\ api.tool = "getPackageReadme"
  /\ api.toolPc = "podInfo"
  /\ api.pc = "done"
  /\ api' = afterPodInfo(api)
  /\ UNCHANGED <<cache, now, cleanupInterval, defaultTtl, maxSize, options, lastOp, readme, result>>

\* the call has returned or thrown and its caller goes on
Finish ==
  /\ api.pc = "done"
  /\ api.tool = "none" \/ api.toolPc = "done"
  /\ api' = Idle(api.finished + 1)
  /\ UNCHANGED <<cache, now, cleanupInterval, defaultTtl, maxSize, options, lastOp, readme, result>>

RetryNext ==
  \/ \E m \in RetryConfigs : WithRetryStart(m)
  \/ Attempt
  \/ Wake
  \/ Finish
  \/ Tick

RetrySpec == ApiInit /\ [][RetryNext]_vars

\* the operation settles and the timer of a delay fires
RetryLiveSpec == RetrySpec /\ WF_vars(Attempt) /\ WF_vars(Wake)

ApiNext ==
  \/ \E n \in PodNames : GetPodInfoStart(n)
  \/ \E q \in Queries, l \in Limits : SearchPodsStart(q, l)
  \/ \E n \in PackageNames : GetPackageReadmeStart(n)
  \/ Attempt
  \/ Wake
  \/ AfterSearch
  \/ AfterPodInfo
  \/ Finish
  \/ Tick

ApiSpec == ApiInit /\ [][ApiNext]_vars

(***************************************************************************)
(* What the claims about the calls speak of.                               *)
(***************************************************************************)
\* the call in progress is a call of op that has returned or thrown
Ended(op) == api.op = op /\ api.pc = "done"

\* getPackageReadme has returned or thrown for a valid name
ToolEnded == api.tool = "getPackageReadme" /\ api.toolPc = "done"

\* C25: getPackageReadme for a valid name that the registry does not hold
\* returns the response with exists = false instead of throwing, whether the
\* search or the fetch of the pod info finds the package absent.
C25_AbsentPackageGivesNotFoundResponse ==
  (ToolEnded /\ api.pkg \notin Registry /\ api.absent # "none") =>
    (~api.toolThrew /\ ~api.exists)

\* C26: a NetworkError is retryable: isRetryableError is true of it, and a
\* call whose operation fails with a NetworkError (a timeout, a failed fetch,
\* a 5xx response) runs the operation again, so that it ends with that error
\* only after maxRetries + 1 attempts.
C26_NetworkErrorIsRetried ==
  (api.pc = "done" /\ api.threw /\ api.error = NetworkError) =>
    (isRetryableError(api.error) /\ api.calls = api.maxRetries + 1)

\* the attempt of a withRetry call settles in this step
AttemptStep == api.op = "withRetry" /\ api.pc = "attempt" /\ api'.calls = api.calls + 1

\* what holds of a withRetry call at every moment
RetryBounded ==
  /\ api.calls <= api.maxRetries + 1
  /\ (api.pc = "waiting") =>
       (isRetryableError(api.error) /\ api.attempt <= api.maxRetries)
  /\ (api.pc = "done" /\ ~api.threw) => (api.value = GenericValue)
  /\ (api.pc = "done" /\ api.threw) =>
       (api.calls = api.maxRetries + 1 \/ ~isRetryableError(api.error))
  /\ (api.pc = "done") => (api.waits = api.calls - 1)

\* what a settled attempt is followed by
AttemptFollowedBy ==
  \/ (api'.pc = "done" /\ ~api'.threw /\ api'.waits = api.waits)
  \/ (/\ api'.pc = "done" /\ api'.threw /\ api'.waits = api.waits
      /\ (~isRetryableError(api'.error) \/ api.attempt = api.maxRetries + 1))
  \/ (/\ api'.pc = "waiting"
      /\ isRetryableError(api'.error) /\ api.attempt <= api.maxRetries)

\* C27: withRetry ends, after at most maxRetries + 1 invocations of the
\* operation: a success ends it at once with the value of that attempt, an
\* error that is not retryable is thrown by the step of the attempt that
\* raised it, with no delay, and the error of attempt maxRetries + 1 is
\* thrown; every other failure is followed by a delay and one more attempt.
C27_WithRetryTerminates ==
  /\ []((api.op = "withRetry") => RetryBounded)
  /\ [][(AttemptStep => AttemptFollowedBy)
        /\ (Ended("withRetry") => (api'.calls \in {api.calls, 0}))]_vars
  /\ (api.pc \in {"attempt", "waiting"}) ~> (api.pc = "done")

\* three retries after four failures with a retryable error
C27_Witness ==
  /\ Ended("withRetry")
  /\ api.maxRetries = DEFAULT_MAX_RETRIES
  /\ api.threw
  /\ api.error = RateLimitError
  /\ api.calls = DEFAULT_MAX_RETRIES + 1
  /\ api.waits = DEFAULT_MAX_RETRIES

\* the store as a failed getPodInfo may leave it: as it was, or without the
\* entry of the call's key that cache.get found expired
WithoutOwnExpired(before, key, t) ==
  IF MapHas(before, key) /\ Expired(MapGet(before, key), t)
  THEN {before, MapDelete(before, key)}
  ELSE {before}

\* C28 as stated: getPodInfo answers from an unexpired entry without a
\* request, and a call that ends in an error leaves the cache as it was when
\* the call began.
C28_FailedCallLeavesCacheUnchanged ==
  /\ (Ended("getPodInfo") /\ api.fromCache) =>
       (api.calls = 0 /\ cache = api.before)
  /\ (Ended("getPodInfo") /\ api.threw) => cache = api.before

\* C28, amended: getPodInfo answers from an unexpired entry without a
\* request; until an attempt has succeeded the call writes nothing, so that a
\* call that ends in an error adds and replaces no entry, and the one change
\* it can make is the removal of the expired entry of its own key; a
\* successful fetch leaves its data under the key.
C28_FailedCallWritesNothing ==
  /\ (Ended("getPodInfo") /\ api.fromCache) =>
       /\ api.calls = 0
       /\ cache = api.before
       /\ api.value = MapGet(api.before, podInfo(api.name)).data
  /\ (api.op = "getPodInfo" /\ (api.pc \in {"attempt", "waiting"} \/ api.threw)) =>
       /\ ~api.fromCache
       /\ cache \in WithoutOwnExpired(api.before, podInfo(api.name), now)
  /\ (Ended("getPodInfo") /\ ~api.threw /\ ~api.fromCache) =>
       /\ api.calls >= 1
       /\ MapHas(cache, podInfo(api.name))
       /\ MapGet(cache, podInfo(api.name)).data = api.value

\* a failed call that began with the expired entry of its own key
C28_Witness ==
  /\ Ended("getPodInfo")
  /\ api.threw
  /\ api.calls >= 1
  /\ MapHas(api.before, podInfo(api.name))
  /\ ~MapHas(cache, podInfo(api.name))

\* C29: searchPods answers from the cache only a request with the query and
\* the limit of the request that stored the entry: a search is never
\* answered with the results of another query.
C29_CachedSearchAnswersSameRequest ==
  (Ended("searchPods") /\ api.fromCache) =>
    (api.value.name = api.name /\ api.value.limit = api.limit)

====
